---- MODULE Spec2Model ----
(***************************************************************************)
(* Model of generate_activity.py: the repository bootstrap (__main__), the *)
(* day iterator generate_commits(start_date, end_date) and the per-commit  *)
(* operation commit(commit_date, msg), together with the parts of the      *)
(* environment they act on (the .git directory, .git/index.lock, .tmpfile, *)
(* the git executable and the commits it records).                         *)
(*                                                                         *)
(* Dates are proleptic Gregorian ordinals (datetime.date.toordinal); text  *)
(* is a sequence of one-character strings.                                 *)
(***************************************************************************)
EXTENDS Integers, Sequences, FiniteSets, TLC

\* ------------------------------------------------------------------ bounds
\* The configured dates are drawn from FirstDay .. FirstDay + MaxSpan.
MaxSpan == 1
\* MIN_COMMITS_PER_DAY <= MAX_COMMITS_PER_DAY are drawn from 0 .. MaxPerDay.
MaxPerDay == 2
\* At most MaxFaults operations of the environment fail (a write of .tmpfile,
\* a git command returning non-zero, a git executable that is not found).
MaxFaults == 1

\* ------------------------------------------------- datetime.date arithmetic
IsLeap(y) == (y % 4 = 0) /\ ((y % 100 # 0) \/ (y % 400 = 0))

DaysInMonth(y, m) ==
    IF m = 2 THEN (IF IsLeap(y) THEN 29 ELSE 28)
    ELSE IF m \in {4, 6, 9, 11} THEN 30 ELSE 31

RECURSIVE DaysBeforeMonth(_, _)
DaysBeforeMonth(y, m) ==
    IF m = 1 THEN 0 ELSE DaysBeforeMonth(y, m - 1) + DaysInMonth(y, m - 1)

DaysBeforeYear(y) ==
    (y - 1) * 365 + ((y - 1) \div 4) - ((y - 1) \div 100) + ((y - 1) \div 400)

\* date(y, m, d).toordinal()
ymd2ord(y, m, d) == DaysBeforeYear(y) + DaysBeforeMonth(y, m) + d

\* date.fromordinal(n), as <<year, month, day>>
ord2ymd(n) ==
    LET n0   == n - 1
        n400 == n0 \div 146097
        r400 == n0 % 146097
        n100 == r400 \div 36524
        r100 == r400 % 36524
        n4   == r100 \div 1461
        r4   == r100 % 1461
        n1   == r4 \div 365
        r1   == r4 % 365
        year == n400 * 400 + 1 + n100 * 100 + n4 * 4 + n1
    IN  IF n1 = 4 \/ n100 = 4
        THEN <<year - 1, 12, 31>>
        ELSE LET month == CHOOSE m \in 1..12 :
                              /\ DaysBeforeMonth(year, m) <= r1
                              /\ r1 < DaysBeforeMonth(year, m) + DaysInMonth(year, m)
             IN  <<year, month, r1 - DaysBeforeMonth(year, month) + 1>>

\* ----------------------------------------------------------- text formatting
DigitChars == <<"0", "1", "2", "3", "4", "5", "6", "7", "8", "9">>

RECURSIVE Digits(_)
Digits(n) ==
    IF n < 10 THEN <<DigitChars[n + 1]>>
    ELSE Digits(n \div 10) \o <<DigitChars[(n % 10) + 1]>>

RECURSIVE ZeroPad(_, _)
\* the format specification 0<w>d: pad on the left, never truncate
ZeroPad(s, w) == IF Len(s) >= w THEN s ELSE ZeroPad(<<"0">> \o s, w)

\* str(commit_date): date.isoformat()
isoformat(d) ==
    LET ymd == ord2ymd(d)
    IN  ZeroPad(Digits(ymd[1]), 4) \o <<"-">> \o ZeroPad(Digits(ymd[2]), 2)
            \o <<"-">> \o ZeroPad(Digits(ymd[3]), 2)

\* time_str = f"{h:02d}:{m:02d}:{s:02d}"
time_str(h, m, s) ==
    ZeroPad(Digits(h), 2) \o <<":">> \o ZeroPad(Digits(m), 2) \o <<":">>
        \o ZeroPad(Digits(s), 2)

\* t = f"{commit_date} {time_str}"
timestamp(d, h, m, s) == isoformat(d) \o <<" ">> \o time_str(h, m, s)

\* random.randint(a, b): any integer of a..b
randint(a, b) == a..b

\* the two ends of random.randint(a, b)
Ends(a, b) == {a, b}

\* --------------------------------------------------------------------- state
VARIABLES
    START_DATE, END_DATE,                      \* configuration (lines 9-10)
    MIN_COMMITS_PER_DAY, MAX_COMMITS_PER_DAY,  \* configuration (lines 11-12)
    pc,             \* position of the process in the script
    run,            \* which start of the script this process is: 1 or 2
    exitCode,       \* -1 while running, then the exit status
    initResult,     \* outcome of this process's git init ("none": not run)
    complete,       \* the completion notice of line 97 was printed
    current_date, num_commits, i,              \* locals of generate_commits
    daysProcessed,  \* iterations of the while loop finished by this process
    commit_date, msg,                          \* arguments of the last commit() call
    t, env,         \* locals of commit(): the timestamp and the git environment
    out,            \* diagnostics printed by the last commit() call
    addResult, commitResult,  \* outcome of the git add / git commit of that call
    slept,          \* time.sleep(0.01) ran in that call
    gitDir,         \* os.path.exists(".git")
    lockExists,     \* os.path.exists(".git/index.lock")
    tmpfile,        \* message line last written to .tmpfile
    repoCommits,    \* number of commits recorded in the repository
    faults,         \* failures of the environment so far
    toolFailed,     \* some git invocation returned non-zero or was not found
    completedRuns,  \* runs that printed the completion notice
    commitsRun1     \* repoCommits when the first run ended

cfg   == <<START_DATE, END_DATE, MIN_COMMITS_PER_DAY, MAX_COMMITS_PER_DAY>>
loop  == <<current_date, num_commits, i, daysProcessed>>
frame == <<commit_date, msg, t, env, out, addResult, commitResult, slept>>
world == <<gitDir, lockExists, tmpfile, repoCommits>>
hist  == <<faults, toolFailed, completedRuns, commitsRun1>>
vars  == <<cfg, pc, run, exitCode, initResult, complete, loop, frame, world, hist>>

FirstDay == ymd2ord(2023, 5, 31)
Dates == FirstDay .. FirstDay + MaxSpan

NoEnv == [GIT_COMMITTER_DATE |-> <<>>, GIT_AUTHOR_DATE |-> <<>>]

Init ==
    /\ START_DATE \in Dates
    /\ END_DATE \in Dates
    /\ MIN_COMMITS_PER_DAY \in 0..MaxPerDay
    /\ MAX_COMMITS_PER_DAY \in MIN_COMMITS_PER_DAY..MaxPerDay
    /\ pc = "main"
    /\ run = 1
    /\ exitCode = -1
    /\ initResult = "none"
    /\ complete = FALSE
    /\ current_date = 0 /\ num_commits = 0 /\ i = 0 /\ daysProcessed = 0
    /\ commit_date = 0 /\ msg = <<>>
    /\ t = <<>> /\ env = NoEnv /\ out = <<>>
    /\ addResult = "none" /\ commitResult = "none" /\ slept = FALSE
    /\ gitDir \in BOOLEAN
    /\ lockExists = FALSE
    /\ tmpfile = <<>>
    /\ repoCommits = 0
    /\ faults = 0 /\ toolFailed = FALSE /\ completedRuns = 0 /\ commitsRun1 = 0

\* Outcomes of one subprocess.run(["git", ...], check=True): it returns
\* ("ok"), raises CalledProcessError ("fail") or FileNotFoundError ("missing").
ToolOutcomes == {"ok"} \cup (IF faults < MaxFaults THEN {"fail", "missing"} ELSE {})

\* sys.exit(1)
Exit1 == /\ pc' = "exited"
         /\ exitCode' = 1

\* ------------------------------------------------------------------ __main__
\* if not os.path.exists(".git"):
MainCheck ==
    /\ pc = "main"
    /\ pc' = IF gitDir THEN "generate" ELSE "git_init"
    /\ UNCHANGED <<cfg, initResult, run, exitCode, complete, loop, frame, world, hist>>

\* git init whose failure is not fatal: generation starts whatever the outcome
GitInit_Swallowed ==
    /\ pc = "git_init"
    /\ \E r \in ToolOutcomes :
         /\ initResult' = r
         /\ pc' = "generate"
         /\ IF r = "ok"
            THEN /\ gitDir' = TRUE
                 /\ UNCHANGED <<faults, toolFailed>>
            ELSE /\ faults' = faults + 1
                 /\ toolFailed' = TRUE
                 /\ UNCHANGED gitDir
    /\ UNCHANGED <<cfg, run, exitCode, complete, loop, frame, lockExists, tmpfile,
                   repoCommits, completedRuns, commitsRun1>>

\* subprocess.run(["git", "init"], check=True, ...) and its two handlers
GitInit ==
    /\ pc = "git_init"
    /\ \E r \in ToolOutcomes :
         /\ initResult' = r
         /\ IF r = "ok"
            THEN /\ gitDir' = TRUE
                 /\ pc' = "generate"
                 /\ UNCHANGED <<exitCode, faults, toolFailed>>
            ELSE /\ Exit1
                 /\ faults' = faults + 1
                 /\ toolFailed' = TRUE
                 /\ UNCHANGED gitDir
    /\ UNCHANGED <<cfg, run, complete, loop, frame, lockExists, tmpfile,
                   repoCommits, completedRuns, commitsRun1>>

\* --------------------------------------------------------- generate_commits
\* generation that skips the range when the repository already has commits
GenStart_SkipDone ==
    /\ pc = "generate"
    /\ current_date' = IF repoCommits > 0 THEN END_DATE + 1 ELSE START_DATE
    /\ pc' = "while"
    /\ UNCHANGED <<cfg, initResult, run, exitCode, complete, num_commits, i,
                   daysProcessed, frame, world, hist>>

\* current_date = start_date
GenStart ==
    /\ pc = "generate"
    /\ current_date' = START_DATE
    /\ pc' = "while"
    /\ UNCHANGED <<cfg, initResult, run, exitCode, complete, num_commits, i, daysProcessed,
                   frame, world, hist>>

\* the loop with an exclusive bound: while current_date < end_date
LoopCond_Exclusive(cur, end) == cur < end

\* while current_date <= end_date
LoopCond(cur, end) == cur <= end

\* num_commits = random.randint(MIN_COMMITS_PER_DAY, MAX_COMMITS_PER_DAY)
WhileBody ==
    /\ pc = "while"
    /\ LoopCond(current_date, END_DATE)
    /\ num_commits' \in randint(MIN_COMMITS_PER_DAY, MAX_COMMITS_PER_DAY)
    /\ i' = 0
    /\ pc' = "for"
    /\ UNCHANGED <<cfg, initResult, run, exitCode, complete, current_date, daysProcessed,
                   frame, world, hist>>

\* the loop ends: the completion notice, then the script ends with status 0
GenerationComplete ==
    /\ pc = "while"
    /\ ~LoopCond(current_date, END_DATE)
    /\ complete' = TRUE
    /\ pc' = "done"
    /\ exitCode' = 0
    /\ completedRuns' = completedRuns + 1
    /\ UNCHANGED <<cfg, initResult, run, loop, frame, world, faults, toolFailed, commitsRun1>>

\* the loop with one index too many: for i in range(num_commits + 1)
ForCond_Inclusive(k, n) == k <= n

\* for i in range(num_commits)
ForCond(k, n) == k < n

\* msg = f"Simulated activity commit {i+1}/{num_commits} on {current_date}",
\* as <<index, count, date>>
Message(k, n, d) == <<k + 1, n, isoformat(d)>>

\* commit(current_date, msg): enter the call
CallCommit ==
    /\ pc = "for"
    /\ ForCond(i, num_commits)
    /\ commit_date' = current_date
    /\ msg' = Message(i, num_commits, current_date)
    /\ t' = <<>> /\ env' = NoEnv /\ out' = <<>>
    /\ addResult' = "none" /\ commitResult' = "none" /\ slept' = FALSE
    /\ pc' = "commit"
    /\ UNCHANGED <<cfg, initResult, run, exitCode, complete, loop, world, hist>>

\* current_date += delta
NextDay ==
    /\ pc = "for"
    /\ ~ForCond(i, num_commits)
    /\ current_date' = current_date + 1
    /\ daysProcessed' = daysProcessed + 1
    /\ pc' = "while"
    /\ UNCHANGED <<cfg, initResult, run, exitCode, complete, num_commits, i, frame, world, hist>>

\* commit() returns to the for loop, which takes its next index
Return ==
    /\ pc' = "for"
    /\ i' = i + 1
    /\ t' = <<>>
    /\ env' = NoEnv
    /\ UNCHANGED <<current_date, num_commits, daysProcessed>>

\* -------------------------------------------------------------------- commit
\* The draws of random.randint(a, b) taken for the hour, the minute and the
\* second: every value of a..b when all is TRUE (SpecClock), else its two ends.
TimeDraw(all, a, b) == IF all THEN randint(a, b) ELSE Ends(a, b)

\* time_str = f"{random.randint(9, 17):02d}:{random.randint(0, 59):02d}:..."
\* t = f"{commit_date} {time_str}"
CommitTime(all) ==
    /\ pc = "commit"
    /\ \E h \in TimeDraw(all, 9, 17), m \in TimeDraw(all, 0, 59),
          s \in TimeDraw(all, 0, 59) :
         t' = timestamp(commit_date, h, m, s)
    /\ pc' = "write"
    /\ UNCHANGED <<cfg, initResult, run, exitCode, complete, loop, commit_date, msg,
                   env, out, addResult, commitResult, slept, world, hist>>

\* the environment with only the committer date set
CommitEnv_AuthorUnset(ts) == [GIT_COMMITTER_DATE |-> ts, GIT_AUTHOR_DATE |-> <<>>]

\* env = os.environ.copy(); env["GIT_COMMITTER_DATE"] = t; env["GIT_AUTHOR_DATE"] = t
CommitEnv(ts) == [GIT_COMMITTER_DATE |-> ts, GIT_AUTHOR_DATE |-> ts]

\* the handler of the write without its return: the call goes on to git add
AfterWrite_Pass(ok) == "git_add"

\* where commit() goes after open(".tmpfile", "w") / f.write(...): on to the
\* git commands, or through "except Exception" to the return
AfterWrite(ok) == IF ok THEN "git_add" ELSE "return"

\* with open(".tmpfile", "w") as f: f.write(msg + ...), then the environment
WriteTmp ==
    /\ pc = "write"
    /\ \E ok \in {TRUE} \cup (IF faults < MaxFaults THEN {FALSE} ELSE {}) :
         /\ IF ok
            THEN /\ tmpfile' = msg
                 /\ UNCHANGED <<out, faults>>
            ELSE /\ out' = Append(out, "write_error")
                 /\ faults' = faults + 1
                 /\ UNCHANGED tmpfile
         /\ IF AfterWrite(ok) = "return"
            THEN Return
            ELSE /\ pc' = AfterWrite(ok)
                 /\ env' = CommitEnv(t)
                 /\ UNCHANGED <<loop, t>>
    /\ UNCHANGED <<cfg, initResult, run, exitCode, complete, commit_date, msg, addResult,
                   commitResult, slept, gitDir, lockExists, repoCommits,
                   toolFailed, completedRuns, commitsRun1>>

\* git add without check=True: a non-zero status raises nothing
AfterAdd_Unchecked(r) ==
    IF r \in {"ok", "fail"} THEN "git_commit" ELSE "except_fnf"

\* where the try block of lines 41-71 goes after git add (check=True)
AfterAdd(r) ==
    IF r = "ok" THEN "git_commit"
    ELSE IF r = "fail" THEN "except_cpe" ELSE "except_fnf"

\* subprocess.run(["git", "add", ".tmpfile"], check=True, ...)
GitAdd ==
    /\ pc = "git_add"
    /\ \E r \in ToolOutcomes :
         /\ addResult' = r
         /\ pc' = AfterAdd(r)
         /\ IF r = "ok"
            THEN UNCHANGED <<faults, toolFailed, lockExists>>
            ELSE /\ faults' = faults + 1
                 /\ toolFailed' = TRUE
                 /\ IF r = "fail" THEN lockExists' \in BOOLEAN ELSE UNCHANGED lockExists
    /\ UNCHANGED <<cfg, initResult, run, exitCode, complete, loop, commit_date, msg, t, env, out,
                   commitResult, slept, gitDir, tmpfile, repoCommits,
                   completedRuns, commitsRun1>>

\* git commit without check=True: a non-zero status raises nothing
AfterCommit_Unchecked(r) ==
    IF r \in {"ok", "fail"} THEN "sleep" ELSE "except_fnf"

\* where the try block goes after git commit (check=True)
AfterCommit(r) ==
    IF r = "ok" THEN "sleep"
    ELSE IF r = "fail" THEN "except_cpe" ELSE "except_fnf"

\* subprocess.run(["git", "commit", "-m", msg], check=True, env=env, ...)
GitCommit ==
    /\ pc = "git_commit"
    /\ \E r \in ToolOutcomes :
         /\ commitResult' = r
         /\ pc' = AfterCommit(r)
         /\ IF r = "ok"
            THEN /\ repoCommits' = repoCommits + 1
                 /\ UNCHANGED <<faults, toolFailed, lockExists>>
            ELSE /\ faults' = faults + 1
                 /\ toolFailed' = TRUE
                 /\ IF r = "fail" THEN lockExists' \in BOOLEAN ELSE UNCHANGED lockExists
                 /\ UNCHANGED repoCommits
    /\ UNCHANGED <<cfg, initResult, run, exitCode, complete, loop, commit_date, msg, t, env, out,
                   addResult, slept, gitDir, tmpfile, completedRuns, commitsRun1>>

\* time.sleep(0.01), the last statement of the try block
Sleep ==
    /\ pc = "sleep"
    /\ slept' = TRUE
    /\ Return
    /\ UNCHANGED <<cfg, initResult, run, exitCode, complete, commit_date, msg, out, addResult,
                   commitResult, world, hist>>

\* the handler without os.remove(lock_path)
RemoveLock_Kept(exists) == exists

\* if os.path.exists(lock_path): os.remove(lock_path)
RemoveLock(exists) == FALSE

\* except subprocess.CalledProcessError
ExceptCalledProcessError ==
    /\ pc = "except_cpe"
    /\ out' = out \o <<"git_failed">>
                  \o (IF lockExists THEN <<"lock_removed">> ELSE <<>>)
    /\ lockExists' = RemoveLock(lockExists)
    /\ Return
    /\ UNCHANGED <<cfg, initResult, run, exitCode, complete, commit_date, msg, addResult,
                   commitResult, slept, gitDir, tmpfile, repoCommits, hist>>

\* the FileNotFoundError handler without sys.exit(1): it returns to the loop
ExceptFileNotFound_NoExit ==
    /\ pc = "except_fnf"
    /\ out' = Append(out, "critical")
    /\ Return
    /\ UNCHANGED <<cfg, initResult, run, exitCode, complete, commit_date, msg,
                   addResult, commitResult, slept, world, hist>>

\* except FileNotFoundError: print the critical error, sys.exit(1)
ExceptFileNotFound ==
    /\ pc = "except_fnf"
    /\ out' = Append(out, "critical")
    /\ Exit1
    /\ UNCHANGED <<cfg, initResult, run, complete, loop, commit_date, msg, t, env, addResult,
                   commitResult, slept, world, hist>>

\* ------------------------------------------------------------ a further run
\* The script is started a second time in the same working directory, with
\* the same configuration, after the first process ended.
Rerun ==
    /\ pc \in {"done", "exited"}
    /\ run = 1
    /\ run' = run + 1
    /\ commitsRun1' = IF run = 1 THEN repoCommits ELSE commitsRun1
    /\ pc' = "main"
    /\ exitCode' = -1
    /\ complete' = FALSE
    /\ current_date' = 0 /\ num_commits' = 0 /\ i' = 0 /\ daysProcessed' = 0
    /\ commit_date' = 0 /\ msg' = <<>>
    /\ t' = <<>> /\ env' = NoEnv /\ out' = <<>>
    /\ addResult' = "none" /\ commitResult' = "none" /\ slept' = FALSE
    /\ initResult' = "none"
    /\ UNCHANGED <<cfg, world, faults, toolFailed, completedRuns>>

Next ==
    \/ MainCheck
    \/ GitInit
    \/ GenStart
    \/ WhileBody
    \/ GenerationComplete
    \/ CallCommit
    \/ NextDay
    \/ CommitTime(FALSE)
    \/ WriteTmp
    \/ GitAdd
    \/ GitCommit
    \/ Sleep
    \/ ExceptCalledProcessError
    \/ ExceptFileNotFound
    \/ Rerun

Spec == Init /\ [][Next]_vars

\* One run over a single day with exactly one commit, in which the hour, the
\* minute and the second take every value random.randint can return.
InitClock ==
    /\ Init
    /\ END_DATE = START_DATE
    /\ MIN_COMMITS_PER_DAY = 1
    /\ MAX_COMMITS_PER_DAY = 1

NextClock ==
    \/ MainCheck
    \/ GitInit
    \/ GenStart
    \/ WhileBody
    \/ GenerationComplete
    \/ CallCommit
    \/ NextDay
    \/ CommitTime(TRUE)
    \/ WriteTmp
    \/ GitAdd
    \/ GitCommit
    \/ Sleep
    \/ ExceptCalledProcessError
    \/ ExceptFileNotFound

SpecClock == InitClock /\ [][NextClock]_vars

\* ------------------------------------------------------------------- claims
\* (end_date - start_date).days + 1, the number of days of the closed range
DaysInRange == IF START_DATE <= END_DATE THEN (END_DATE - START_DATE) + 1 ELSE 0

\* the last commit() call has returned to generate_commits
Returned == msg # <<>> /\ pc \in {"for", "while", "done"}

Printed(line) == \E k \in 1..Len(out) : out[k] = line

\* a step that enters commit()
IsCall == pc # "commit" /\ pc' = "commit"

\* reading a decimal number back from text; -1 when a character is no digit
IsDigit(c) == \E k \in 1..10 : DigitChars[k] = c
DigitVal(c) == (CHOOSE k \in 1..10 : DigitChars[k] = c) - 1
RECURSIVE ParseNum(_)
ParseNum(s) ==
    IF s = <<>> THEN 0
    ELSE IF ~IsDigit(s[Len(s)]) THEN -1
    ELSE LET head == ParseNum(SubSeq(s, 1, Len(s) - 1))
         IN  IF head < 0 THEN -1 ELSE head * 10 + DigitVal(s[Len(s)])

\* ts reads YYYY-MM-DD HH:MM:SS with the date d and a time of 09:00:00-17:59:59
WellFormedStamp(ts, d) ==
    /\ Len(ts) = 19
    /\ ts[5] = "-" /\ ts[8] = "-" /\ ts[11] = " " /\ ts[14] = ":" /\ ts[17] = ":"
    /\ LET y  == ParseNum(SubSeq(ts, 1, 4))
           mo == ParseNum(SubSeq(ts, 6, 7))
           dd == ParseNum(SubSeq(ts, 9, 10))
           h  == ParseNum(SubSeq(ts, 12, 13))
           mi == ParseNum(SubSeq(ts, 15, 16))
           se == ParseNum(SubSeq(ts, 18, 19))
       IN  /\ y >= 1 /\ mo \in 1..12 /\ dd \in 1..DaysInMonth(y, mo)
           /\ ymd2ord(y, mo, dd) = d
           /\ h \in 9..17 /\ mi \in 0..59 /\ se \in 0..59

\* C1: whenever start <= end, a run that completes has processed exactly
\* (end - start).days + 1 days: the day cursor starts at start, is one day
\* further for every day processed, and the loop ends with the cursor at
\* end + 1, so that end itself is processed.
C1_DaysProcessed ==
    /\ (pc \notin {"main", "git_init", "generate"} /\ current_date # 0)
          => current_date = START_DATE + daysProcessed
    /\ (pc \in {"for", "commit", "write", "git_add", "git_commit", "sleep",
                "except_cpe", "except_fnf"})
          => current_date <= END_DATE
    /\ (pc = "done" /\ START_DATE <= END_DATE)
          => /\ daysProcessed = (END_DATE - START_DATE) + 1
             /\ current_date = END_DATE + 1

C1_Witness ==
    /\ pc = "done"
    /\ START_DATE < END_DATE
    /\ daysProcessed = (END_DATE - START_DATE) + 1

\* C2: every call of commit() is for the day being processed, carries an
\* index i of 1..n where n is that day's drawn count and MIN <= n <= MAX,
\* and follows the previous call of the same run either on the same day with
\* the next index, or on a later day with index 1 after the earlier day's
\* last index; a day whose count is 0 has no call.
C2_CallOrder ==
    [][IsCall =>
         /\ commit_date' = current_date
         /\ msg'[2] = num_commits
         /\ msg'[3] = isoformat(current_date)
         /\ num_commits >= MIN_COMMITS_PER_DAY
         /\ num_commits <= MAX_COMMITS_PER_DAY
         /\ num_commits > 0
         /\ msg'[1] \in 1..num_commits
         /\ IF msg = <<>>
            THEN msg'[1] = 1
            ELSE \/ /\ commit_date' = commit_date
                    /\ msg'[2] = msg[2]
                    /\ msg'[1] = msg[1] + 1
                 \/ /\ commit_date' > commit_date
                    /\ msg[1] = msg[2]
                    /\ msg'[1] = 1]_vars

C2_Witness ==
    /\ pc = "commit"
    /\ commit_date = START_DATE + 1
    /\ msg[1] = 2
    /\ msg[2] = 2
    /\ repoCommits >= 3

C4_AsStated ==
    addResult = "fail" =>
        /\ ~Printed("git_failed")
        /\ pc = "git_commit" \/ commitResult # "none"

\* C4 as amended: once git add has failed with a non-zero status, the call
\* goes through the CalledProcessError handler, which prints the failure;
\* git commit is not invoked in that call, there is no pause, and the process
\* goes on with the loop.
C4_AddFailureHandled ==
    addResult = "fail" =>
        /\ commitResult = "none"
        /\ ~slept
        /\ pc \in {"except_cpe", "for", "while", "done"}
        /\ pc # "except_cpe" => Printed("git_failed")
        /\ exitCode # 1

C4_Witness ==
    /\ addResult = "fail"
    /\ pc = "for"
    /\ Printed("git_failed")
    /\ ForCond(i, num_commits)

\* C5: the handler of a git commit that returned non-zero prints the
\* failure, leaves no lock file, reports the removal exactly when the lock
\* file existed, and returns to the loop at the next index without exiting
\* and without a commit being recorded; and no call of commit() repeats the
\* arguments of the call before it.
C5_CommitFailureContinues ==
    [][/\ (pc = "except_cpe" /\ commitResult = "fail") =>
             /\ Printed("git_failed")'
             /\ lockExists' = FALSE
             /\ Printed("lock_removed")' <=> lockExists
             /\ pc' = "for"
             /\ i' = i + 1
             /\ current_date' = current_date
             /\ num_commits' = num_commits
             /\ exitCode' = -1
             /\ repoCommits' = repoCommits
       /\ IsCall => <<commit_date', msg'>> # <<commit_date, msg>>]_vars

C5_Witness ==
    /\ commitResult = "fail"
    /\ pc = "for"
    /\ out = <<"git_failed", "lock_removed">>
    /\ ~lockExists
    /\ ForCond(i, num_commits)

\* C6: a git add or git commit whose executable is not found leads straight
\* to the FileNotFoundError handler, which exits with status 1 leaving the
\* loop, the files and the repository as they are; an exited process takes no
\* further step (only a new run follows), and a process that exited with
\* status 1 has not printed the completion notice.
C6_MissingToolExits ==
    [][/\ (addResult' = "missing" /\ addResult # "missing") => pc' = "except_fnf"
       /\ (commitResult' = "missing" /\ commitResult # "missing") => pc' = "except_fnf"
       /\ pc = "except_fnf" =>
             /\ pc' = "exited"
             /\ exitCode' = 1
             /\ UNCHANGED <<loop, world, complete, slept>>
       /\ pc = "exited" => (run' = run + 1 /\ pc' = "main")
       /\ exitCode' = 1 => ~complete']_vars

C6_Witness ==
    /\ pc = "exited"
    /\ exitCode = 1
    /\ commitResult = "missing"
    /\ Printed("critical")
    /\ current_date < END_DATE
    /\ msg[1] < msg[2]

\* C7: with .git present the process goes from the check to generation; with
\* .git absent it runs git init first, before any day or commit; when git
\* init succeeds generation starts with .git present, and when it fails the
\* process has exited with status 1 with no day processed, no call of
\* commit() and no commit recorded by this process.
C7_Bootstrap ==
    [][/\ pc = "main" => pc' = (IF gitDir THEN "generate" ELSE "git_init")
       /\ pc = "git_init" =>
             /\ daysProcessed = 0 /\ current_date = 0 /\ msg = <<>>
             /\ \/ initResult' = "ok" /\ pc' = "generate" /\ gitDir'
                \/ initResult' \in {"fail", "missing"} /\ pc' = "exited"
       /\ pc' \notin {"main", "git_init", "exited"} => gitDir'
       /\ initResult' \in {"fail", "missing"} =>
             /\ pc' = "exited"
             /\ exitCode' = 1
             /\ ~complete'
             /\ daysProcessed' = 0
             /\ msg' = <<>>
             /\ tmpfile' = tmpfile
             /\ repoCommits' = (IF run' = 1 THEN 0 ELSE commitsRun1')]_vars

C7_Witness ==
    /\ initResult = "fail"
    /\ pc = "exited"
    /\ exitCode = 1
    /\ repoCommits = 0

\* both runs completed and the count is fixed at k = MIN = MAX
TwoFixedRuns ==
    /\ run = 2
    /\ pc = "done"
    /\ completedRuns = 2
    /\ MIN_COMMITS_PER_DAY = MAX_COMMITS_PER_DAY

C9_WriteFailureSkips ==
    Printed("write_error") =>
        /\ addResult = "none"
        /\ commitResult = "none"
        /\ ~slept
        /\ exitCode # 1
        /\ pc \in {"for", "while", "done"}
        /\ (pc = "for" /\ current_date = commit_date) => i = msg[1]

C9_Witness ==
    /\ Printed("write_error")
    /\ pc = "for"
    /\ ForCond(i, num_commits)
    /\ addResult = "none"
    /\ commitResult = "none"

\* C10 as stated: a call of commit() that invoked git commit, with either
\* outcome, has paused by the time it returns.
C10_AsStated ==
    (Returned /\ commitResult \in {"ok", "fail"}) => slept

\* C10 as amended: a call of commit() has paused by the time it returns
\* exactly when its git commit succeeded; a call whose git commit (or git
\* add, or write) failed returns without the pause.
C10_PauseOnlyOnSuccess ==
    /\ Returned => (slept <=> commitResult = "ok")
    /\ slept => commitResult = "ok"

C10_Witness ==
    /\ Returned
    /\ commitResult = "ok"
    /\ slept
    /\ ForCond(i, num_commits)

====
